---------------------------- MODULE Spec2Model ----------------------------
(***************************************************************************)
(* Model of streamlit_app.py: the four-step "Web Content and Topic Mapper". *)
(*                                                                         *)
(* Text is modelled as a sequence of one-character strings, so that the    *)
(* regular-expression search and the neighbour-character test of the       *)
(* vocabulary matcher are computed character by character, as the code     *)
(* computes them.  A DataFrame is a sequence of rows; the empty sequence   *)
(* is the empty DataFrame.                                                 *)
(***************************************************************************)
EXTENDS Integers, Sequences, FiniteSets, TLC

VARIABLES
    cache,      \* st.cache_data of analyze_page_content: URL -> cached return value
    df1,        \* st.session_state.df1 (Step 1 table)
    df2,        \* st.session_state.df2 (Step 2 table)
    df3,        \* st.session_state.df3 (Step 3 table)
    df4,        \* st.session_state.df4 (Step 4 table)
    msg,        \* the st.success / st.warning / exception shown by the last run
    press,      \* the button pressed in the last script run and the lines its upload gave
    run,        \* how far the scrape / AI loop of the last script run got
    llmCalls,   \* row positions whose prompt the last script run sent to the provider
    mText,      \* matcher harness: the text argument of find_items_in_text
    mItems,     \* matcher harness: the items argument of find_items_in_text
    mFound,     \* matcher harness: found_items when the call returned
    mOut,       \* matcher harness: the returned string
    mCalled     \* matcher harness: has the call returned

pipeVars == <<cache, df1, df2, df3, df4, msg, press, run, llmCalls>>
matchVars == <<mText, mItems, mFound, mOut, mCalled>>
vars == <<cache, df1, df2, df3, df4, msg, press, run, llmCalls,
          mText, mItems, mFound, mOut, mCalled>>

(***************************************************************************)
(* Bounds of the model.                                                    *)
(***************************************************************************)
MaxTextLen == 3     \* longest text handed to the matcher harness
MaxItems == 2       \* longest vocabulary of the matcher harness
MaxUrls == 2        \* most lines in an uploaded URL file

(***************************************************************************)
(* Characters.                                                             *)
(***************************************************************************)
UpperCase == <<"A", "B", "C", "D", "E", "F", "G", "H", "I", "J", "K", "L", "M",
               "N", "O", "P", "Q", "R", "S", "T", "U", "V", "W", "X", "Y", "Z">>
LowerCase == <<"a", "b", "c", "d", "e", "f", "g", "h", "i", "j", "k", "l", "m",
               "n", "o", "p", "q", "r", "s", "t", "u", "v", "w", "x", "y", "z">>
DigitChars == {"0", "1", "2", "3", "4", "5", "6", "7", "8", "9"}

Range(s) == {s[i] : i \in DOMAIN s}

\* re.IGNORECASE compares characters by their case-folded form.
FoldCase(c) ==
    IF \E i \in DOMAIN UpperCase : UpperCase[i] = c
    THEN LowerCase[CHOOSE i \in DOMAIN UpperCase : UpperCase[i] = c]
    ELSE c

\* \w of the re module: letters, digits and the underscore.
IsWordChar(c) ==
    c \in Range(UpperCase) \cup Range(LowerCase) \cup DigitChars \cup {"_"}

\* str.isspace()
IsSpace(c) == c \in {" ", "\t", "\n", "\r"}

\* the literal '(),."\'' of is_standalone_word
StandalonePunct == {"(", ")", ",", ".", "\"", "'"}

(***************************************************************************)
(* The vocabulary matcher.  Offsets are the 0-based offsets of Python:     *)
(* the character at offset p is text[p + 1].                               *)
(***************************************************************************)

\* \b at offset p: exactly one of the two neighbouring characters is a word character.
WordBoundaryAt(text, p) ==
    LET before == p > 0 /\ IsWordChar(text[p])
        after == p < Len(text) /\ IsWordChar(text[p + 1])
    IN before # after

\* r'\b' + re.escape(item) + r'\b' matches at offset p, ignoring case.
PatternMatchesAt(text, item, p) ==
    /\ p + Len(item) <= Len(text)
    /\ \A k \in 1..Len(item) : FoldCase(text[p + k]) = FoldCase(item[k])
    /\ WordBoundaryAt(text, p)
    /\ WordBoundaryAt(text, p + Len(item))

\* re.finditer: the start offsets of the successive non-overlapping matches,
\* each search resuming at the end of the previous match.
RECURSIVE FindIter(_, _, _)
FindIter(text, item, pos) ==
    LET starts == {p \in pos..(Len(text) - Len(item)) : PatternMatchesAt(text, item, p)}
    IN IF starts = {} THEN <<>>
       ELSE LET p == CHOOSE q \in starts : \A r \in starts : q <= r
            IN <<p>> \o FindIter(text, item, p + Len(item))

is_standalone_word(text, start, end) ==
    LET is_start_ok == (start = 0)
                          \/ IsSpace(text[start])
                          \/ text[start] \in StandalonePunct
        is_end_ok == (end = Len(text))
                        \/ IsSpace(text[end + 1])
                        \/ text[end + 1] \in StandalonePunct
    IN is_start_ok /\ is_end_ok

\* the inner for loop: some match of the item is a standalone word
ItemIsFound(text, item) ==
    LET m == FindIter(text, item, 0)
    IN \E j \in DOMAIN m : is_standalone_word(text, m[j], m[j] + Len(item))

\* AlreadyFound with the membership test left out (a faulty variant)
AlreadyFoundNever(item, found) == FALSE

\* if item in found_items: continue
AlreadyFound(item, found) == item \in Range(found)

\* the outer for loop: found_items after the first n items
RECURSIVE FoundItems(_, _, _)
FoundItems(text, items, n) ==
    IF n = 0 THEN <<>>
    ELSE LET found == FoundItems(text, items, n - 1)
             item == items[n]
         IN IF AlreadyFound(item, found) THEN found
            ELSE IF ItemIsFound(text, item) THEN Append(found, item)
            ELSE found

\* ", ".join(found_items)
RECURSIVE Join(_)
Join(list) ==
    IF list = <<>> THEN <<>>
    ELSE IF Len(list) = 1 THEN list[1]
    ELSE list[1] \o <<",", " ">> \o Join(Tail(list))

\* A value handed to find_items_in_text: a str with its characters, or a non-str.
StrValue(chars) == [isStr |-> TRUE, chars |-> chars]
NotAStr == [isStr |-> FALSE, chars |-> <<>>]

find_items_found(text, items) ==
    IF ~text.isStr THEN <<>> ELSE FoundItems(text.chars, items, Len(items))

find_items_in_text(text, items) == Join(find_items_found(text, items))

(***************************************************************************)
(* Harness of the matcher: the inputs are drawn in the initial state and   *)
(* one call is made.                                                       *)
(***************************************************************************)
MatchChars == {"a", "A", " ", ".", "-"}

RECURSIVE SeqsUpTo(_, _)
SeqsUpTo(S, n) ==
    IF n = 0 THEN {<<>>}
    ELSE LET shorter == SeqsUpTo(S, n - 1)
         IN shorter \cup {Append(s, x) : s \in {t \in shorter : Len(t) = n - 1}, x \in S}

MatchTexts == {StrValue(s) : s \in SeqsUpTo(MatchChars, MaxTextLen)} \cup {NotAStr}
\* vocabulary terms: lines that line.strip() leaves as they are
MatchTerms ==
    {<<"a">>, <<"A">>, <<"a", "a">>, <<"A", "a">>, <<"-">>, <<"a", "-">>,
     <<".", "a">>, <<"a", " ", "a">>}
MatchVocabularies == SeqsUpTo(MatchTerms, MaxItems)

MatchInit ==
    /\ mText \in MatchTexts
    /\ mItems \in MatchVocabularies
    /\ mFound = <<>>
    /\ mOut = <<>>
    /\ mCalled = FALSE

CallFindItems ==
    /\ ~mCalled
    /\ mFound' = find_items_found(mText, mItems)
    /\ mOut' = find_items_in_text(mText, mItems)
    /\ mCalled' = TRUE
    /\ UNCHANGED <<mText, mItems>>
    /\ UNCHANGED pipeVars

(***************************************************************************)
(* Uploaded files.  An upload is absent or holds lines of text.            *)
(***************************************************************************)
RECURSIVE LStrip(_)
LStrip(s) == IF s # <<>> /\ IsSpace(s[1]) THEN LStrip(Tail(s)) ELSE s

RECURSIVE RStrip(_)
RStrip(s) ==
    IF s # <<>> /\ IsSpace(s[Len(s)]) THEN RStrip(SubSeq(s, 1, Len(s) - 1)) ELSE s

\* line.strip()
Strip(s) == RStrip(LStrip(s))

\* [line.strip() for line in io.StringIO(...) if line.strip()]
RECURSIVE ParseLines(_)
ParseLines(lines) ==
    IF lines = <<>> THEN <<>>
    ELSE LET line == Strip(lines[1])
         IN IF line = <<>> THEN ParseLines(Tail(lines))
            ELSE <<line>> \o ParseLines(Tail(lines))

NoFile == [present |-> FALSE, lines |-> <<>>]
Upload(lines) == [present |-> TRUE, lines |-> lines]

BlankLine == <<" ">>
UrlA == <<"a">>
UrlB == <<"b">>
Urls == {UrlA, UrlB}
UrlLines == {UrlA, <<" ", "b", " ">>, BlankLine}
UrlFiles == {NoFile} \cup {Upload(l) : l \in SeqsUpTo(UrlLines, MaxUrls)}

ViewTerm == <<"v", "i", "e", "w">>
ViewerTerm == <<"V", "i", "e", "w", "e", "r">>
ErrorTerm == <<"E", "r", "r", "o", "r">>
RoleTerm == <<"r", "o", "l", "e">>
CppTerm == <<"C", "+", "+">>

RolesFiles ==
    {NoFile, Upload(<<>>), Upload(<<BlankLine>>),
     Upload(<<ViewTerm, <<" ">> \o ViewerTerm \o <<" ">>, ErrorTerm>>)}

TopicsFiles ==
    {NoFile, Upload(<<BlankLine, BlankLine>>),
     Upload(<<RoleTerm, BlankLine, CppTerm, RoleTerm>>)}

(***************************************************************************)
(* Pages.  A response of the web server is a failure of the request, a     *)
(* page, or a page whose parsing raises an exception that is not a         *)
(* RequestException.                                                       *)
(***************************************************************************)
SeeViewerText == <<"S", "e", "e", " ", "t", "h", "e", " ", "V", "i", "e", "w", "e", "r",
                   " ", "r", "o", "l", "e">>
OverviewText == <<"o", "v", "e", "r", "v", "i", "e", "w", " ", "o", "f", " ", "V", "i",
                  "e", "w", "e", "r", " ", "r", "o", "l", "e">>
UseCppText == <<"w", "e", " ", "u", "s", "e", " ", "C", "+", "+", " ", "d", "a", "i",
                "l", "y">>
FetchErrorText == <<"F", "e", "t", "c", "h", " ", "E", "r", "r", "o", "r">>
MainContentNotFound == <<"M", "a", "i", "n", " ", "C", "o", "n", "t", "e", "n", "t", " ",
                         "N", "o", "t", " ", "F", "o", "u", "n", "d">>
ContentNotAvailable == <<"C", "o", "n", "t", "e", "n", "t", " ", "N", "o", "t", " ",
                         "A", "v", "a", "i", "l", "a", "b", "l", "e">>

\* what BeautifulSoup holds of a fetched page: the two label paragraphs, the title
\* element, and the text of the article / main / body element without its
\* nav, header, footer and aside parts
Soup(cloud, onprem, hasTitle, title, hasMain, main) ==
    [cloud |-> cloud, onprem |-> onprem, hasTitle |-> hasTitle, title |-> title,
     hasMain |-> hasMain, main |-> main]

PageNames == {"pCloud", "pOnPrem", "pBoth", "pPlain"}

PageOf(name) ==
    CASE name = "pCloud" -> Soup(TRUE, FALSE, TRUE, "Viewer", TRUE, SeeViewerText)
      [] name = "pOnPrem" -> Soup(FALSE, TRUE, TRUE, "Overview", TRUE, OverviewText)
      [] name = "pBoth" -> Soup(TRUE, TRUE, FALSE, "", FALSE, <<>>)
      [] name = "pPlain" -> Soup(FALSE, FALSE, TRUE, "Compose", TRUE, UseCppText)

\* what a request for the URL can give
Responses(url) ==
    {"fail", "raise"} \cup (IF url = UrlA THEN {"pCloud", "pBoth"} ELSE {"pOnPrem", "pPlain"})

\* the first element of the tuple analyze_page_content returns: None or the soup
NoSoup == "None"
Uncached == "uncached"

\* get_deployment_type_from_scraping with the test for both labels after the
\* test for the cloud label (a faulty variant)
get_deployment_type_cloud_first(soup) ==
    IF soup = NoSoup THEN ""
    ELSE IF PageOf(soup).cloud THEN "Alation Cloud Service"
    ELSE IF PageOf(soup).cloud /\ PageOf(soup).onprem
         THEN "Alation Cloud Service, Customer Managed"
    ELSE IF PageOf(soup).onprem THEN "Customer Managed"
    ELSE ""

get_deployment_type_from_scraping(soup) ==
    IF soup = NoSoup THEN ""
    ELSE IF PageOf(soup).cloud /\ PageOf(soup).onprem
         THEN "Alation Cloud Service, Customer Managed"
    ELSE IF PageOf(soup).cloud THEN "Alation Cloud Service"
    ELSE IF PageOf(soup).onprem THEN "Customer Managed"
    ELSE ""

extract_main_content(soup) ==
    IF soup = NoSoup THEN ContentNotAvailable
    ELSE IF PageOf(soup).hasMain THEN PageOf(soup).main
    ELSE MainContentNotFound

\* the title analyze_page_content returns for a soup
PageTitle(soup) ==
    IF soup = NoSoup THEN "Fetch Error"
    ELSE IF PageOf(soup).hasTitle THEN PageOf(soup).title
    ELSE "No Title Found"

(***************************************************************************)
(* Rows.  A cell of a column the table does not have, or that pandas       *)
(* filled with NaN, holds the absent value of its type.                    *)
(***************************************************************************)
Absent == <<"<absent>">>
AbsentStr == "<absent>"

\* the dict built for one URL in the scrape loop
ScrapedRow(i, url, soup) ==
    [index |-> i,
     title |-> PageTitle(soup),
     url |-> url,
     deployment |-> IF soup # NoSoup THEN get_deployment_type_from_scraping(soup)
                    ELSE "Fetch Error",
     content |-> IF soup # NoSoup THEN extract_main_content(soup) ELSE FetchErrorText,
     userRoles |-> Absent,
     userRole |-> Absent,
     topics |-> Absent,
     area |-> AbsentStr,
     hasKeywords |-> FALSE,
     keywords |-> <<>>]

\* AppendResult that gives a URL that could not be fetched no row (a faulty variant)
AppendResultFetchedOnly(results, data) ==
    IF data.deployment = "Fetch Error" THEN results ELSE Append(results, data)

\* results.append(data)
AppendResult(results, data) == Append(results, data)

\* analyze_page_content under st.cache_data, for one URL: the value returned
\* (a soup name, or NoSoup), or "raise" when an exception leaves the function
AnalyzeResult(c, resp, url) ==
    IF c[url] # Uncached THEN c[url]
    ELSE IF resp[url] = "fail" THEN NoSoup
    ELSE resp[url]

\* the for loop of Step 1, from URL number i on: the rows appended, the cache,
\* and whether an exception ended the script run
RECURSIVE ScrapeLoop(_, _, _, _, _)
ScrapeLoop(urls, i, c, results, resp) ==
    IF i > Len(urls) THEN [results |-> results, cache |-> c, aborted |-> FALSE]
    ELSE LET url == urls[i]
             soup == AnalyzeResult(c, resp, url)
         IN IF soup = "raise"
            THEN [results |-> results, cache |-> c, aborted |-> TRUE]
            ELSE ScrapeLoop(urls, i + 1, [c EXCEPT ![url] = soup],
                            AppendResult(results, ScrapedRow(i - 1, url, soup)), resp)

\* the two renames before the results are shown: 'User Roles' becomes 'User Role'
RenameUserRoles(df) ==
    IF (\E i \in DOMAIN df : df[i].userRoles # Absent)
          /\ (\A i \in DOMAIN df : df[i].userRole = Absent)
    THEN [i \in DOMAIN df |-> [df[i] EXCEPT !.userRole = df[i].userRoles,
                                            !.userRoles = Absent]]
    ELSE df

Pressed(button, hasFile, terms) ==
    [button |-> button, hasFile |-> hasFile, terms |-> terms]
LoopRun(loop, rows, done, aborted) ==
    [loop |-> loop, rows |-> rows, done |-> done, aborted |-> aborted]

\* the end of every script run that is not cut short by an exception: the renames
\* are applied to the session's df2 and df3 as the run leaves them
ShowResults(d2, d3) ==
    /\ df2' = RenameUserRoles(d2)
    /\ df3' = RenameUserRoles(d3)

NoPress == Pressed("none", FALSE, <<>>)
NoRun == LoopRun("none", 0, 0, FALSE)

\* the later tables kept as they are after a scrape (a faulty variant)
KeptAfterScrape(df) == df

\* st.session_state.df2, df3, df4 = pd.DataFrame(), pd.DataFrame(), pd.DataFrame()
ClearedAfterScrape(df) == <<>>

\* Step 1: the "Scrape URLs" button
ScrapeUrls ==
    \E file \in UrlFiles, resp \in [Urls -> UNION {Responses(u) : u \in Urls}] :
        LET urls == ParseLines(file.lines)
            out == ScrapeLoop(urls, 1, cache, <<>>, resp)
        IN /\ \A u \in Urls : resp[u] \in Responses(u)
           \* only the response to a request that is made matters
           /\ \A u \in Urls :
                 (u \notin Range(urls) \/ cache[u] # Uncached) => resp[u] = "fail"
           /\ press' = Pressed("scrape", file.present, urls)
           /\ IF ~file.present
              THEN /\ msg' = "Please upload a URLs file."
                   /\ ShowResults(df2, df3)
                   /\ run' = NoRun
                   /\ UNCHANGED <<cache, df1, df4>>
              ELSE /\ cache' = out.cache
                   /\ run' = LoopRun("scrape", Len(urls), Len(out.results), out.aborted)
                   /\ IF out.aborted
                      THEN /\ msg' = "exception"
                           /\ UNCHANGED <<df1, df2, df3, df4>>
                      ELSE /\ df1' = out.results
                           /\ ShowResults(ClearedAfterScrape(df2), ClearedAfterScrape(df3))
                           /\ df4' = ClearedAfterScrape(df4)
                           /\ msg' = "Step 1 complete!"
           /\ llmCalls' = {}
           /\ UNCHANGED matchVars

\* df['User Roles'] = df['Page Content'].apply(lambda txt: find_items_in_text(txt, roles))
WithUserRoles(df, roles) ==
    [i \in DOMAIN df |->
        [df[i] EXCEPT !.userRoles = find_items_in_text(StrValue(df[i].content), roles)]]

\* df['Topics'] = df['Page Content'].apply(lambda txt: find_items_in_text(txt, topics))
WithTopics(df, topics) ==
    [i \in DOMAIN df |->
        [df[i] EXCEPT !.topics = find_items_in_text(StrValue(df[i].content), topics)]]

\* VocabularyIsEmpty with the test of the parsed list left out (a faulty variant)
VocabularyNeverEmpty(terms) == FALSE

\* "if roles:" and "if topics:" fail
VocabularyIsEmpty(terms) == terms = <<>>

\* st.session_state.df3, st.session_state.df4 = pd.DataFrame(), pd.DataFrame()
ClearedAfterRoles(df) == <<>>

\* st.session_state.df4 = pd.DataFrame()
ClearedAfterTopics(df) == <<>>

\* Step 2: the "Map User Roles" button
MapUserRoles ==
    /\ df1 # <<>>
    /\ \E file \in RolesFiles :
        LET roles == ParseLines(file.lines)
        IN /\ press' = Pressed("roles", file.present, roles)
           /\ IF ~file.present
              THEN /\ msg' = "Please upload a roles file."
                   /\ ShowResults(df2, df3)
                   /\ UNCHANGED df4
              ELSE IF VocabularyIsEmpty(roles)
              THEN /\ msg' = "Roles file is empty."
                   /\ ShowResults(df2, df3)
                   /\ UNCHANGED df4
              ELSE /\ ShowResults(WithUserRoles(df1, roles), ClearedAfterRoles(df3))
                   /\ df4' = ClearedAfterRoles(df4)
                   /\ msg' = "Step 2 complete!"
    /\ run' = NoRun
    /\ llmCalls' = {}
    /\ UNCHANGED <<cache, df1>>
    /\ UNCHANGED matchVars

\* Step 3: the "Map Topics" button
MapTopics ==
    /\ df2 # <<>>
    /\ \E file \in TopicsFiles :
        LET topics == ParseLines(file.lines)
        IN /\ press' = Pressed("topics", file.present, topics)
           /\ IF ~file.present
              THEN /\ msg' = "Please upload a topics file."
                   /\ ShowResults(df2, df3)
                   /\ UNCHANGED df4
              ELSE IF VocabularyIsEmpty(topics)
              THEN /\ msg' = "Topics file is empty."
                   /\ ShowResults(df2, df3)
                   /\ UNCHANGED df4
              ELSE /\ ShowResults(df2, WithTopics(df2, topics))
                   /\ df4' = ClearedAfterTopics(df4)
                   /\ msg' = "Step 3 complete!"
    /\ run' = NoRun
    /\ llmCalls' = {}
    /\ UNCHANGED <<cache, df1>>
    /\ UNCHANGED matchVars

(***************************************************************************)
(* Step 4.  What the provider answers for one row is not under the         *)
(* program's control: the call raises, or returns a text from which       *)
(* process_ai_response gets no row (no csv block, or one that cannot be    *)
(* read or has no data row), or a csv block whose first data row sets some *)
(* columns.                                                                *)
(***************************************************************************)
KeywordLimit == 20

Answer(kind, cols, url, deployment, area, keywords) ==
    [kind |-> kind, cols |-> cols, url |-> url, deployment |-> deployment,
     area |-> area, keywords |-> keywords]

RaiseAnswer == Answer("raise", {}, <<>>, "", "", <<>>)
NoRowAnswer == Answer("norow", {}, <<>>, "", "", <<>>)
\* one phrase more than the prompt asks for, the first phrase twice
TooManyKeywords == [i \in 1..(KeywordLimit + 1) |-> IF i = 1 THEN 2 ELSE i]
RewriteAnswer ==
    Answer("row", {"Page URL", "Deployment Type", "Functional Area", "Keywords"}, <<"z">>,
           "Customer Managed", "Compose", TooManyKeywords)

AIAnswers == {RaiseAnswer, NoRowAnswer, RewriteAnswer}

Providers == {"Google Gemini", "OpenAI (GPT-4)", "Hugging Face"}

\* process_ai_response: is the first row of the csv block returned (not None)
process_ai_response(answer) == answer.kind = "row"

\* for col in enriched_row.index: df_to_process.loc[index, col] = enriched_row[col]
WriteAnswer(row, answer) ==
    [row EXCEPT
        !.url = IF "Page URL" \in answer.cols THEN answer.url ELSE @,
        !.deployment = IF "Deployment Type" \in answer.cols THEN answer.deployment ELSE @,
        !.area = IF "Functional Area" \in answer.cols THEN answer.area ELSE @,
        !.hasKeywords = IF "Keywords" \in answer.cols THEN TRUE ELSE @,
        !.keywords = IF "Keywords" \in answer.cols THEN answer.keywords ELSE @]

\* one iteration of the for loop of enrich_data_with_ai
EnrichRow(row, answer) ==
    IF answer.kind = "raise" THEN row
    ELSE IF process_ai_response(answer) THEN WriteAnswer(row, answer)
    ELSE row

\* row positions for which a call_..._api function is called
PromptedRows(df) == DOMAIN df

\* the for loop of enrich_data_with_ai over the first n rows: the table and
\* the number of iterations made
RECURSIVE EnrichLoop(_, _, _)
EnrichLoop(df, answers, n) ==
    IF n = 0 THEN [df |-> df, done |-> 0]
    ELSE LET before == EnrichLoop(df, answers, n - 1)
         IN [df |-> [before.df EXCEPT ![n] = EnrichRow(before.df[n], answers[n])],
             done |-> before.done + 1]

enrich_data_with_ai(df, answers) == EnrichLoop(df, answers, Len(df)).df

\* Step 4: the "Fill Blanks with AI" button
FillBlanksWithAI ==
    /\ df3 # <<>>
    \* of the provider chosen, the branches read only whether it is Hugging Face
    /\ \E hasKey \in BOOLEAN, isHuggingFace \in {p = "Hugging Face" : p \in Providers},
          hasModel \in BOOLEAN :
        \* the model id field is shown for Hugging Face only
        /\ ~isHuggingFace => ~hasModel
        /\ press' = Pressed("ai", hasKey, <<>>)
        /\ IF ~hasKey
           THEN /\ msg' = (IF isHuggingFace
                           THEN "Please enter your Hugging Face User Access Token to proceed."
                           ELSE "Please enter your API Key to proceed.")
                /\ run' = NoRun
                /\ llmCalls' = {}
                /\ UNCHANGED df4
           ELSE IF isHuggingFace /\ ~hasModel
           THEN /\ msg' = "Please enter a Hugging Face Model ID to proceed."
                /\ run' = NoRun
                /\ llmCalls' = {}
                /\ UNCHANGED df4
           ELSE \E answers \in [DOMAIN df3 -> AIAnswers] :
                /\ df4' = enrich_data_with_ai(df3, answers)
                /\ llmCalls' = PromptedRows(df3)
                /\ run' = LoopRun("ai", Len(df3), EnrichLoop(df3, answers, Len(df3)).done,
                                  FALSE)
                /\ msg' = "AI enrichment complete! The final report is ready."
    /\ ShowResults(df2, df3)
    /\ UNCHANGED <<cache, df1>>
    /\ UNCHANGED matchVars

\* the table the Results section shows
df_to_show ==
    IF df4 # <<>> THEN df4
    ELSE IF df3 # <<>> THEN df3
    ELSE IF df2 # <<>> THEN df2
    ELSE df1

(***************************************************************************)
(* The application.                                                        *)
(***************************************************************************)
PipeInit ==
    /\ cache = [u \in Urls |-> Uncached]
    /\ df1 = <<>>
    /\ df2 = <<>>
    /\ df3 = <<>>
    /\ df4 = <<>>
    /\ msg = ""
    /\ press = NoPress
    /\ run = NoRun
    /\ llmCalls = {}

MatchIdle ==
    /\ mText = NotAStr
    /\ mItems = <<>>
    /\ mFound = <<>>
    /\ mOut = <<>>
    /\ mCalled = FALSE

Init == PipeInit /\ MatchIdle

Next == ScrapeUrls \/ MapUserRoles \/ MapTopics \/ FillBlanksWithAI

Spec == Init /\ [][Next]_vars

InitMatch == MatchInit /\ PipeInit

NextMatch == CallFindItems

SpecMatch == InitMatch /\ [][NextMatch]_vars

(***************************************************************************)
(* Properties.                                                             *)
(***************************************************************************)
NoDuplicates(s) == \A i, j \in DOMAIN s : s[i] = s[j] => i = j

\* s is a subsequence of t: its elements occur in t, in the order of s
RECURSIVE IsSubsequence(_, _)
IsSubsequence(s, t) ==
    IF s = <<>> THEN TRUE
    ELSE IF t = <<>> THEN FALSE
    ELSE IF s[1] = t[1] THEN IsSubsequence(Tail(s), Tail(t))
    ELSE IsSubsequence(s, Tail(t))

\* what the fetch of the URL of row i returned: NoSoup or the soup
FetchedAs(df, i) == cache[df[i].url]

\* C1 as stated: a fetched page with neither label gets "Tag Not Found", and the
\* Deployment Type of a fetched page is never empty.
C1_TruthTableAsStated ==
    \A i \in DOMAIN df1 :
        FetchedAs(df1, i) \in PageNames =>
            LET page == PageOf(FetchedAs(df1, i))
            IN /\ df1[i].deployment # ""
               /\ df1[i].deployment =
                    (IF page.cloud /\ page.onprem
                        THEN "Alation Cloud Service, Customer Managed"
                     ELSE IF page.cloud THEN "Alation Cloud Service"
                     ELSE IF page.onprem THEN "Customer Managed"
                     ELSE "Tag Not Found")

\* C1 (amended): for a fetched page the Deployment Type is "Alation Cloud Service,
\* Customer Managed" when both labels are present, "Alation Cloud Service" when only
\* the cloud label is, "Customer Managed" when only the on-prem label is, and the
\* empty string when neither is; it is empty in that case only.
C1_TruthTable ==
    \A i \in DOMAIN df1 :
        FetchedAs(df1, i) \in PageNames =>
            LET page == PageOf(FetchedAs(df1, i))
            IN /\ (df1[i].deployment = "") <=> (~page.cloud /\ ~page.onprem)
               /\ (page.cloud /\ page.onprem) =>
                     df1[i].deployment = "Alation Cloud Service, Customer Managed"
               /\ (page.cloud /\ ~page.onprem) =>
                     df1[i].deployment = "Alation Cloud Service"
               /\ (~page.cloud /\ page.onprem) =>
                     df1[i].deployment = "Customer Managed"

C1_Witness ==
    /\ Len(df1) = 2
    /\ FetchedAs(df1, 1) = "pPlain"
    /\ df1[1].deployment = ""
    /\ FetchedAs(df1, 2) = "pBoth"
    /\ df1[2].deployment = "Alation Cloud Service, Customer Managed"

\* C2: in every table, the row of a URL whose fetch failed has the Fetch Error
\* sentinel as Deployment Type, as User Role once the roles are mapped and as
\* Topics once the topics are mapped, and it stands at its input position.
C2_FetchErrorEverywhere ==
    \A df \in {df1, df2, df3} :
        \A i \in DOMAIN df :
            FetchedAs(df1, i) = NoSoup =>
                /\ df[i].url = df1[i].url
                /\ df[i].deployment = "Fetch Error"
                /\ df[i].userRole \in {Absent, FetchErrorText}
                /\ df[i].topics \in {Absent, FetchErrorText}

\* two tables have the same rows in the same order: as many rows, and row by row
\* the same index label, URL and page content
SameRowOrder(a, b) ==
    /\ Len(a) = Len(b)
    /\ \A i \in DOMAIN a :
          /\ a[i].index = b[i].index
          /\ a[i].content = b[i].content

C4_FoundIsSubsequence ==
    mCalled =>
        /\ IsSubsequence(mFound, mItems)
        /\ NoDuplicates(mFound)

C4_Witness ==
    /\ mCalled
    /\ mText = StrValue(<<"a">>)
    /\ mItems = <<<<"A">>, <<"A">>>>
    /\ mFound = <<<<"A">>>>

\* the characters the claim lets stand next to an occurrence
IsSeparator(c) == IsSpace(c) \/ c \in StandalonePunct

\* the text has a case-insensitive occurrence of the term between separators
\* or the ends of the text
HasStandaloneOccurrence(text, term) ==
    \E p \in 0..(Len(text) - Len(term)) :
        /\ \A k \in 1..Len(term) : FoldCase(text[p + k]) = FoldCase(term[k])
        /\ p = 0 \/ IsSeparator(text[p])
        /\ p + Len(term) = Len(text) \/ IsSeparator(text[p + Len(term) + 1])

\* C5: a vocabulary term is reported if and only if the text has a standalone
\* occurrence of it, whatever characters the term begins and ends with.
C5_ReportedIffStandalone ==
    (mCalled /\ mText.isStr) =>
        \A j \in DOMAIN mItems :
            (mItems[j] \in Range(mFound)) <=> HasStandaloneOccurrence(mText.chars, mItems[j])

\* C6: a loop over the rows that was started reached its end, with every row
\* handled.
C6_LoopsReachTheirEnd ==
    run.loop # "none" => (~run.aborted /\ run.done = run.rows)

\* C7: a press of "Map User Roles" or "Map Topics" whose uploaded file gives no
\* term reports the empty file and leaves the four tables as they were.
C7_EmptyVocabularySkipsStage ==
    [][(press'.button \in {"roles", "topics"} /\ press'.hasFile /\ press'.terms = <<>>) =>
          /\ msg' = (IF press'.button = "roles" THEN "Roles file is empty."
                     ELSE "Topics file is empty.")
          /\ df1' = df1
          /\ df2' = df2
          /\ df3' = df3
          /\ df4' = df4]_vars

C7_Witness ==
    /\ press.button = "roles"
    /\ press.hasFile
    /\ press.terms = <<>>
    /\ msg = "Roles file is empty."
    /\ df2 # <<>>
    /\ df3 # <<>>
    /\ df4 # <<>>

\* C8: a prompt is sent for a row only if its Deployment Type is blank, and the
\* AI stage leaves the Deployment Type of every other row as it was.
C8_OnlyBlankRowsGoToTheModel ==
    /\ \A i \in llmCalls : df3[i].deployment = ""
    /\ df4 # <<>> =>
          \A i \in DOMAIN df4 :
              df3[i].deployment # "" => df4[i].deployment = df3[i].deployment

\* C9: the Keywords of a row are at most 20 phrases, no two of them equal.
C9_KeywordsBounded ==
    \A i \in DOMAIN df4 :
        df4[i].hasKeywords =>
            /\ Len(df4[i].keywords) <= KeywordLimit
            /\ NoDuplicates(df4[i].keywords)

\* the table without the column a stage added
WithoutUserRole(df) == [i \in DOMAIN df |-> [df[i] EXCEPT !.userRole = Absent]]
WithoutTopics(df) == [i \in DOMAIN df |-> [df[i] EXCEPT !.topics = Absent]]

StageTablesConsistent ==
    /\ df2 # <<>> => (df1 # <<>> /\ WithoutUserRole(df2) = df1)
    /\ df3 # <<>> => (df2 # <<>> /\ WithoutTopics(df3) = df2)
    /\ df4 # <<>> =>
          /\ df3 # <<>>
          /\ \E answers \in [DOMAIN df3 -> AIAnswers] :
                df4 = enrich_data_with_ai(df3, answers)
    /\ SameRowOrder(df_to_show, df1)

RerunEmptiesLaterStages ==
    /\ msg' = "Step 1 complete!" => (df2' = <<>> /\ df3' = <<>> /\ df4' = <<>>)
    /\ msg' = "Step 2 complete!" => (df3' = <<>> /\ df4' = <<>>)
    /\ msg' = "Step 3 complete!" => df4' = <<>>

\* C10: a non-empty table of a stage was computed from the present table of the
\* stage before it, which is non-empty; the table shown has the rows of the
\* present Step 1 table; and a stage that completes empties the tables of the
\* later stages.
C10_StagesStayConsistent ==
    []StageTablesConsistent /\ [][RerunEmptiesLaterStages]_vars

\* all four tables are present, the AI stage changed a row, and the Step 1 table
\* is that of a later scrape than the first (a URL fetched earlier is not in it)
C10_Witness ==
    /\ df2 # <<>>
    /\ df3 # <<>>
    /\ df4 # <<>>
    /\ df4 # df3
    /\ cache[UrlA] # Uncached
    /\ \A i \in DOMAIN df1 : df1[i].url = UrlB

=============================================================================
